---- MODULE Spec2Model ----
(***************************************************************************)
(* Model of the layer-traversal and instrumentation code of the fixed-     *)
(* point evaluation harness: src/lib/utils.py (module classification,      *)
(* dotted-path access, labels-file loading) and src/evalnet.py (the        *)
(* calibration pass and the subcommand dispatch).                          *)
(*                                                                         *)
(* A network is a finite tree of modules.  A module is identified by its   *)
(* path from the root, the sequence of positions taken in each parent's    *)
(* ordered `_modules` dictionary; its exact runtime type is a tag.  Text   *)
(* (module names, dotted keys, lines of a labels file) is a sequence of    *)
(* one-character strings, so that joining and splitting are computed.      *)
(*                                                                         *)
(* What is taken from the framework: a `_modules` dictionary holds modules *)
(* only (no None entries), no module object is registered in two places,   *)
(* and a child name is non-empty and holds no "." (add_module refuses      *)
(* both).  Code the sources import but do not hold (HistogramTracker,      *)
(* test_quant, get_net, CONFIG_SETS) is kept to its calls: a tracker is    *)
(* the log of the tensors it is given, test_quant and get_net return, and  *)
(* CONFIG_SETS maps a net name and a subset name to a list of pairs.       *)
(***************************************************************************)
EXTENDS Integers, Sequences, FiniteSets, TLC

VARIABLES
    pc,            \* position of the running function
    model,         \* the module tree: path -> exact type
    track,         \* pairs yielded by iter_trackable_modules_with_names
    quant,         \* pairs yielded by iter_quantisable_modules_with_names
    io             \* per-specification working state (a record)

vars == <<pc, model, track, quant, io>>

-----------------------------------------------------------------------------
(* Bounds *)

\* most modules below the root in a classified tree
MaxNodes == 3

\* most modules below the root in a tree accessed by dotted key
MaxAccessNodes == 2

\* most modules below the root in a calibrated network
MaxCalibNodes == 2

\* most module calls of one calibration pass
MaxCalls == 2

\* most lines of a labels file
MaxLines == 3

\* most configurations of one subset of CONFIG_SETS
MaxConfigs == 2

-----------------------------------------------------------------------------
(* Text *)

Digits == <<"0", "1", "2", "3", "4", "5", "6", "7", "8", "9">>

\* Optional[str]: None is the empty tuple, a present value a one-element tuple
None == <<>>
Some(s) == <<s>>

\* Python's s.split(sep) for a one-character separator: the pieces between
\* the separators, empty pieces included
RECURSIVE SplitOn(_, _)
SplitOn(s, sep) ==
    IF \A i \in 1..Len(s) : s[i] # sep
    THEN <<s>>
    ELSE LET i == CHOOSE k \in 1..Len(s) :
                      s[k] = sep /\ \A j \in 1..(k - 1) : s[j] # sep
         IN  <<SubSeq(s, 1, i - 1)>> \o SplitOn(SubSeq(s, i + 1, Len(s)), sep)

-----------------------------------------------------------------------------
(* The module tree *)

\* exact types the classification distinguishes; "Other" stands for any other
\* class (Sequential, ReLU, BatchNorm2d, a user block, a subclass of Conv2d)
Types == {"Conv2d", "Linear",
          "QuantizableConvRelu", "ConvReLU2d", "LinearReLU",
          "Identity", "Dropout", "MaxPool2d", "AdaptiveAvgPool2d",
          "Other"}

\* the root is never inspected by the traversals; a plain and a fused root
RootTypes == {"Other", "ConvReLU2d"}

Root == <<>>

\* len(module._modules)
NumKids(m, p) ==
    Cardinality({q \in DOMAIN m : Len(q) = Len(p) + 1 /\ SubSeq(q, 1, Len(p)) = p})

\* key of the i-th entry of a `_modules` dictionary: "0", "fc1", "2", "fc3", ...
NameOf(i) ==
    IF i % 2 = 1 THEN <<Digits[i]>> ELSE <<"f", "c", Digits[i]>>

\* module.named_children(): (name, child) in `_modules` order
named_children(m, p) ==
    [i \in 1..NumKids(m, p) |-> <<NameOf(i), Append(p, i)>>]

\* the sets of paths of the trees with at most n modules below the root
RECURSIVE Shapes(_)
Shapes(n) ==
    IF n = 0 THEN {{Root}}
    ELSE LET prev == Shapes(n - 1)
         IN  prev \cup
             {S \cup {Append(p, Cardinality({q \in S : Len(q) = Len(p) + 1
                                   /\ SubSeq(q, 1, Len(p)) = p}) + 1)} :
                 <<S, p>> \in {<<S1, p1>> \in prev \X UNION prev : p1 \in S1}}

Models(n) ==
    {m \in UNION {[S -> Types] : S \in Shapes(n)} : m[Root] \in RootTypes}

Descendants(m) == DOMAIN m \ {Root}

\* q is a proper ancestor of p
IsProperPrefix(q, p) == Len(q) < Len(p) /\ SubSeq(p, 1, Len(q)) = q

-----------------------------------------------------------------------------
(* src/lib/utils.py: classification *)

\* a fused type left out of the list
seq_leaf_types_without_ConvReLU2d == {"QuantizableConvRelu", "LinearReLU"}

seq_leaf_types == {"QuantizableConvRelu", "ConvReLU2d", "LinearReLU"}

ignore == {"Identity", "Dropout", "MaxPool2d", "AdaptiveAvgPool2d"}

leaves == {"Conv2d", "Linear"}

\* the parent's name dropped
full_name_without_parent(parent_name, name) == name

\* full_name = name if parent_name is None else f"{parent_name}.{name}"
full_name(parent_name, name) ==
    IF parent_name = None THEN name ELSE parent_name[1] \o <<".">> \o name

\* the traversal descending into fused modules too
TrackDescends_always(m, child) == TRUE

\* the guard of the recursive call of the trackable traversal
TrackDescends(m, child) == m[child] \notin seq_leaf_types

\* fused modules with children not taken as leaves
TrackYields_childless_only(m, child) ==
    NumKids(m, child) = 0 /\ m[child] \notin ignore

\* the guard of the yield of the trackable traversal
TrackYields(m, child) ==
    /\ (NumKids(m, child) = 0 \/ m[child] \in seq_leaf_types)
    /\ m[child] \notin ignore

\* only childless convolutions and linear layers taken
QuantYields_childless_only(m, child) ==
    m[child] \in leaves /\ NumKids(m, child) = 0

\* the guard of the yield of the quantisable traversal
QuantYields(m, child) == m[child] \in leaves

\* the generator, from the i-th child of `module` on
RECURSIVE iter_trackable_modules_helper_(_, _, _, _)
iter_trackable_modules_helper_(m, module, parent_name, i) ==
    IF i > NumKids(m, module) THEN <<>>
    ELSE LET name  == named_children(m, module)[i][1]
             child == named_children(m, module)[i][2]
             full  == full_name(parent_name, name)
             below == IF TrackDescends(m, child)
                      THEN iter_trackable_modules_helper_(m, child, Some(full), 1)
                      ELSE <<>>
             own   == IF TrackYields(m, child) THEN << <<full, child>> >> ELSE <<>>
         IN  below \o own \o iter_trackable_modules_helper_(m, module, parent_name, i + 1)

iter_trackable_modules_with_names(m) ==
    iter_trackable_modules_helper_(m, Root, None, 1)

\* the nodes alone
iter_trackable_modules(m) ==
    LET ys == iter_trackable_modules_with_names(m)
    IN  [k \in 1..Len(ys) |-> ys[k][2]]

RECURSIVE iter_quantisable_modules_helper_(_, _, _, _)
iter_quantisable_modules_helper_(m, module, parent_name, i) ==
    IF i > NumKids(m, module) THEN <<>>
    ELSE LET name  == named_children(m, module)[i][1]
             child == named_children(m, module)[i][2]
             full  == full_name(parent_name, name)
             below == iter_quantisable_modules_helper_(m, child, Some(full), 1)
             own   == IF QuantYields(m, child) THEN << <<full, child>> >> ELSE <<>>
         IN  below \o own \o iter_quantisable_modules_helper_(m, module, parent_name, i + 1)

iter_quantisable_modules_with_names(m) ==
    iter_quantisable_modules_helper_(m, Root, None, 1)

-----------------------------------------------------------------------------
(* Classification of a network: both passes over one tree, as print-net    *)
(* runs them (src/evalnet.py:139-143).                                     *)

Unset == <<"unset">>
Idle == [on |-> "idle"]

InitClassify ==
    /\ pc = "start"
    /\ model \in Models(MaxNodes)
    /\ track = Unset
    /\ quant = Unset
    /\ io = Idle

TrackPass ==
    /\ pc = "start"
    /\ track' = iter_trackable_modules_with_names(model)
    /\ pc' = "tracked"
    /\ UNCHANGED <<model, quant, io>>

QuantPass ==
    /\ pc = "tracked"
    /\ quant' = iter_quantisable_modules_with_names(model)
    /\ pc' = "classified"
    /\ UNCHANGED <<model, track, io>>

NextClassify == TrackPass \/ QuantPass

SpecClassify == InitClassify /\ [][NextClassify]_vars

-----------------------------------------------------------------------------
(* Properties of the classification *)

\* the type lists as the claims state them
FusedTypes == {"QuantizableConvRelu", "ConvReLU2d", "LinearReLU"}
IgnoredTypes == {"Identity", "Dropout", "MaxPool2d", "AdaptiveAvgPool2d"}
ConvLinearTypes == {"Conv2d", "Linear"}

\* how many pairs of ys carry node p
Count(ys, p) == Cardinality({k \in 1..Len(ys) : ys[k][2] = p})

Nodes(ys) == {ys[k][2] : k \in 1..Len(ys)}

UnderFused(m, p) ==
    \E q \in Descendants(m) : IsProperPrefix(q, p) /\ m[q] \in FusedTypes

\* conditions (a), (b), (c) of a trackable descendant
IsTrackable(m, p) ==
    /\ p # Root
    /\ (\A q \in DOMAIN m : ~IsProperPrefix(p, q)) \/ m[p] \in FusedTypes
    /\ m[p] \notin IgnoredTypes
    /\ ~UnderFused(m, p)

\* C1: the trackable pass yields a descendant exactly when it is childless or
\* fused, not of an ignored type and not below a fused module; each such
\* descendant is yielded once, and the root and anything else never.
C1_TrackableExactly ==
    pc \in {"tracked", "classified"} =>
        /\ Nodes(track) \subseteq DOMAIN model
        /\ \A p \in DOMAIN model :
               Count(track, p) = IF IsTrackable(model, p) THEN 1 ELSE 0

\* a fused module two levels down is yielded, the module below it is not
C1_Witness ==
    /\ pc = "tracked"
    /\ \E p \in Descendants(model) :
           /\ Len(p) = 3
           /\ model[SubSeq(p, 1, 2)] \in FusedTypes
           /\ model[p] = "Conv2d"
           /\ Count(track, p) = 0
           /\ Count(track, SubSeq(p, 1, 2)) = 1
           /\ Count(track, SubSeq(p, 1, 1)) = 0

\* C2: the quantisable pass yields a descendant exactly when its type is
\* Conv2d or Linear, whatever its children and ancestors, and once.
C2_QuantisableExactly ==
    pc = "classified" =>
        /\ Nodes(quant) \subseteq DOMAIN model
        /\ \A p \in DOMAIN model :
               Count(quant, p) =
                   IF p # Root /\ model[p] \in ConvLinearTypes THEN 1 ELSE 0

\* a Linear with a child and a Conv2d inside a fused module are both yielded
C2_Witness ==
    /\ pc = "classified"
    /\ \E p, q \in Descendants(model) :
           /\ model[p] = "Linear" /\ NumKids(model, p) > 0
           /\ model[q] = "Conv2d" /\ UnderFused(model, q)
           /\ Count(quant, p) = 1 /\ Count(quant, q) = 1

\* C3 as stated: no module is yielded by both passes.
C3_Disjoint ==
    pc = "classified" => Nodes(track) \cap Nodes(quant) = {}

\* C3 as amended: a module is yielded by both passes exactly when it is a
\* childless Conv2d or Linear with no fused module above it; every other
\* descendant is in exactly one of trackable-only, quantisable-only, ignored.
C3_OverlapExactly ==
    pc = "classified" =>
        \A p \in Descendants(model) :
            (p \in Nodes(track) /\ p \in Nodes(quant)) <=>
                /\ model[p] \in ConvLinearTypes
                /\ NumKids(model, p) = 0
                /\ ~UnderFused(model, p)

\* one module in both passes, one in the quantisable pass alone
C3_Witness ==
    /\ pc = "classified"
    /\ \E p, q \in Descendants(model) :
           /\ p \in Nodes(track) \cap Nodes(quant)
           /\ q \in Nodes(quant) \ Nodes(track)

\* the dotted path of a node, from the names on its path
RECURSIVE DottedPath(_)
DottedPath(p) ==
    IF Len(p) = 1 THEN NameOf(p[1])
    ELSE DottedPath(SubSeq(p, 1, Len(p) - 1)) \o <<".">> \o NameOf(p[Len(p)])

\* p leaves a depth-first traversal before q does: q is above p, or p lies in
\* an earlier sibling's subtree
PostOrderBefore(p, q) ==
    \/ IsProperPrefix(q, p)
    \/ \E k \in 1..Len(p) :
           /\ k <= Len(q)
           /\ SubSeq(p, 1, k - 1) = SubSeq(q, 1, k - 1)
           /\ p[k] < q[k]

InTraversalOrder(ys) ==
    /\ \A i, j \in 1..Len(ys) : i < j => PostOrderBefore(ys[i][2], ys[j][2])
    /\ \A i \in 1..Len(ys) : ys[i][1] = DottedPath(ys[i][2])
    /\ \A i, j \in 1..Len(ys) : i # j => ys[i][1] # ys[j][1]

\* C4: each pass emits its pairs in depth-first order (a child's subtree, then
\* the child, then the later siblings), named by the dotted path from the
\* root, and the names of one pass are pairwise distinct.
C4_TraversalOrder ==
    /\ pc \in {"tracked", "classified"} => InTraversalOrder(track)
    /\ pc = "classified" => InTraversalOrder(quant)

\* a pair from a child's subtree, the child's own pair, a later sibling's pair
C4_Witness ==
    /\ pc = "classified"
    /\ Len(quant) = 3
    /\ quant[1][2] = <<1, 1>> /\ quant[2][2] = <<1>> /\ quant[3][2] = <<2>>
    /\ Len(track) = 2

ConvLinearChildless(m) ==
    \A p \in Descendants(m) : m[p] \in ConvLinearTypes => NumKids(m, p) = 0

\* C9: when convolutions and linear layers have no children, every module of
\* the quantisable pass is in the trackable pass itself or has exactly one
\* proper ancestor there, a fused module.
C9_QuantisableCovered ==
    (pc = "classified" /\ ConvLinearChildless(model)) =>
        \A p \in Nodes(quant) :
            LET above == {q \in Nodes(track) : IsProperPrefix(q, p)}
            IN  \/ p \in Nodes(track) /\ above = {}
                \/ /\ p \notin Nodes(track)
                   /\ Cardinality(above) = 1
                   /\ \A q \in above : model[q] \in FusedTypes

\* a Linear below a fused module: the fused module alone is tracked
C9_Witness ==
    /\ pc = "classified"
    /\ ConvLinearChildless(model)
    /\ \E p \in Nodes(quant) :
           /\ p \notin Nodes(track)
           /\ Len(p) = 3
           /\ \E q \in Nodes(track) : IsProperPrefix(q, p)

-----------------------------------------------------------------------------
(* src/lib/utils.py: access by dotted key *)

\* outcomes of a call: a value returned, or an exception raised
Returned(v) == [exc |-> "none", val |-> v]
Raised(e) == [exc |-> e, val |-> <<>>]

\* getattr(cur_mod, s) on a module: the child registered under s, or
\* AttributeError (keys are tried against `_modules` only)
GetAttr(m, cur_mod, s) ==
    IF \E i \in 1..NumKids(m, cur_mod) : NameOf(i) = s
    THEN Returned(Append(cur_mod, CHOOSE i \in 1..NumKids(m, cur_mod) : NameOf(i) = s))
    ELSE Raised("AttributeError")

\* hasattr(cur_mod, s)
HasAttr(m, cur_mod, s) == GetAttr(m, cur_mod, s).exc = "none"

\* for s in tokens: cur_mod = getattr(cur_mod, s)
RECURSIVE Walk(_, _, _)
Walk(m, cur_mod, tokens) ==
    IF tokens = <<>> THEN Returned(cur_mod)
    ELSE LET r == GetAttr(m, cur_mod, Head(tokens))
         IN  IF r.exc # "none" THEN r ELSE Walk(m, r.val, Tail(tokens))

get_module(m, submodule_key) ==
    Walk(m, Root, SplitOn(submodule_key, "."))

\* every token walked, the last one included
sub_tokens_all(tokens) == tokens

\* sub_tokens = tokens[:-1]
sub_tokens(tokens) == SubSeq(tokens, 1, Len(tokens) - 1)

IsPrefix(q, p) == Len(q) <= Len(p) /\ SubSeq(p, 1, Len(q)) = q

\* setattr(parent, name, module) for an existing child at path t: the entry of
\* `_modules` is rebound in place, so the subtree at t becomes the tree r
\* (f is the tree's labelling, g the labelling of r)
Graft(f, t, g) ==
    [p \in {q \in DOMAIN f : ~IsPrefix(t, q)} \cup {t \o q : q \in DOMAIN g} |->
        IF IsPrefix(t, p) THEN g[SubSeq(p, Len(t) + 1, Len(p))] ELSE f[p]]

\* set_module: the outcome and the target path
set_module(m, submodule_key) ==
    LET tokens == SplitOn(submodule_key, ".")
        cur    == Walk(m, Root, sub_tokens(tokens))
    IN  IF cur.exc # "none" THEN cur
        ELSE IF ~HasAttr(m, cur.val, tokens[Len(tokens)])
             THEN Raised("RuntimeError")
             ELSE GetAttr(m, cur.val, tokens[Len(tokens)])

\* object identity: a module of the loaded network, or of a replacement
NetObject(p) == [o |-> "net", at |-> p]
NewObject(p) == [o |-> "new", at |-> p]

\* replacement modules handed to set_module: a leaf, a fused block holding a
\* convolution
Replacements ==
    {(Root :> "Identity"),
     (Root :> "QuantizableConvRelu"),
     (Root :> "QuantizableConvRelu") @@ (<<1>> :> "Conv2d")}

\* a name that no `_modules` dictionary holds
Missing == <<"x">>

\* the keys tried: every dotted path of the tree, each with a missing name
\* appended, a missing name alone and under a missing parent, a trailing dot
AccessKeys(m) ==
    LET RECURSIVE Keys(_, _)
        Keys(p, name) ==
            {name} \cup {name \o <<".">> \o Missing, name \o <<".">>}
            \cup UNION {Keys(Append(p, i), full_name(Some(name), NameOf(i))) :
                           i \in 1..NumKids(m, p)}
    IN  {Missing, Missing \o <<".">> \o Missing}
        \cup UNION {Keys(<<i>>, NameOf(i)) : i \in 1..NumKids(m, Root)}

InitAccess ==
    /\ pc = "start"
    /\ model \in Models(MaxAccessNodes)
    /\ track = Unset
    /\ quant = Unset
    /\ io = [on |-> "access",
             obj |-> [p \in DOMAIN model |-> NetObject(p)],
             before |-> model,
             key |-> <<>>, m |-> <<>>, out |-> Returned(<<>>)]

TrackPassAccess ==
    /\ io.on = "access"
    /\ TrackPass

QuantPassAccess ==
    /\ io.on = "access"
    /\ QuantPass

\* get_module(model, key)
GetModule(key) ==
    /\ pc \in {"classified", "set"}
    /\ pc = "set" => key = io.key
    /\ LET r == get_module(model, key)
       IN  io' = [io EXCEPT !.key = key,
                            !.out = IF r.exc = "none"
                                    THEN Returned(io.obj[r.val]) ELSE r]
    /\ pc' = IF pc = "set" THEN "got_after_set" ELSE "got"
    /\ UNCHANGED <<model, track, quant>>

\* set_module(model, key, module)
SetModule(key, module) ==
    /\ pc = "classified"
    /\ LET r == set_module(model, key)
       IN  IF r.exc # "none"
           THEN /\ io' = [io EXCEPT !.key = key, !.m = module, !.out = r]
                /\ pc' = "raised"
                /\ UNCHANGED model
           ELSE /\ model' = Graft(model, r.val, module)
                /\ io' = [io EXCEPT
                            !.key = key, !.m = module, !.out = Returned(<<>>),
                            !.obj = Graft(io.obj, r.val,
                                          [q \in DOMAIN module |-> NewObject(q)])]
                /\ pc' = "set"
    /\ UNCHANGED <<track, quant>>

NextAccess ==
    \/ TrackPassAccess
    \/ QuantPassAccess
    \/ \E key \in AccessKeys(model) : GetModule(key)
    \/ \E key \in AccessKeys(model), module \in Replacements : SetModule(key, module)

SpecAccess == InitAccess /\ [][NextAccess]_vars

-----------------------------------------------------------------------------
(* Properties of the access by dotted key *)

\* the pairs of both passes
Yielded == {track[k] : k \in 1..Len(track)} \cup {quant[k] : k \in 1..Len(quant)}

\* the path a yielded name was yielded with
YieldedNode(name) == (CHOOSE y \in Yielded : y[1] = name)[2]

IsYieldedName(name) == \E y \in Yielded : y[1] = name

\* the key names a missing attribute of a parent that exists
MissingUnderParent(m, key) ==
    \/ key = Missing
    \/ \E p \in Descendants(m) :
           key \in {DottedPath(p) \o <<".">> \o Missing, DottedPath(p) \o <<".">>}

\* C10: get_module of a yielded name returns the yielded node; set_module of
\* a yielded name does not raise, get_module then returns the new module and
\* every module off the key's subtree is unchanged; set_module of a key whose
\* last token is no attribute of its parent raises RuntimeError and changes
\* nothing.
C10_DottedAccess ==
    /\ (pc = "got" /\ IsYieldedName(io.key)) =>
           io.out = Returned(NetObject(YieldedNode(io.key)))
    /\ (pc \in {"set", "raised", "got_after_set"} /\ IsYieldedName(io.key)) =>
           /\ pc # "raised"
           /\ pc = "got_after_set" => io.out = Returned(NewObject(Root))
           /\ \A p \in DOMAIN io.before \cup DOMAIN model :
                  ~IsPrefix(YieldedNode(io.key), p) =>
                      /\ p \in DOMAIN io.before /\ p \in DOMAIN model
                      /\ model[p] = io.before[p]
                      /\ io.obj[p] = NetObject(p)
    /\ (pc \in {"set", "raised"} /\ MissingUnderParent(io.before, io.key)) =>
           /\ pc = "raised"
           /\ io.out = Raised("RuntimeError")
           /\ model = io.before

\* a nested yielded name replaced by a module that has a child, then read back
C10_Witness ==
    /\ pc = "got_after_set"
    /\ IsYieldedName(io.key)
    /\ Len(YieldedNode(io.key)) = 2
    /\ io.m = (Root :> "QuantizableConvRelu") @@ (<<1>> :> "Conv2d")
    /\ io.out = Returned(NewObject(Root))
    /\ model # io.before

-----------------------------------------------------------------------------
(* src/evalnet.py: get_intermediate, the calibration pass *)

\* HistogramTracker.update(tensor): the accumulator takes the tensor in; the
\* tracker is kept as the sequence of the tensors it has been given
update(tracker, tensor) == Append(tracker, tensor)

\* the tensors of the c-th module call of the pass, a call of module p
InputOf(c, p) == <<[call |-> c, of |-> p, role |-> "input0"],
                   [call |-> c, of |-> p, role |-> "input1"]>>
OutputOf(c, p) == [call |-> c, of |-> p, role |-> "output"]

\* hist_tracker_output_hook / hist_tracker_input_hook: what the closure hands
\* to its tracker
HookTensor(kind, input, output) ==
    IF kind = "input" THEN input[1] ELSE output

\* the output hook of every layer bound to the tracker of the same index
output_tracker_index_same(i) == i

\* hist_tracker[i + 1], as a Python index
output_tracker_index(i) == i + 1

\* Python list index k of a sequence
At(xs, k) == xs[k + 1]

\* module(...) with forward hooks: the hooks run in registration order
RECURSIVE RunHooks(_, _, _, _)
RunHooks(trackers, hs, input, output) ==
    IF hs = <<>> THEN trackers
    ELSE LET h == Head(hs)
         IN  RunHooks([trackers EXCEPT ![h.tracker + 1] =
                           update(@, HookTensor(h.kind, input, output))],
                      Tail(hs), input, output)

CalibModels(n) == {m \in Models(n) : m[Root] = "Other"}

InitCalib ==
    /\ pc = "start"
    /\ model \in CalibModels(MaxCalibNodes)
    /\ track = Unset
    /\ quant = Unset
    /\ io = [on |-> "calib",
             modules |-> <<>>,
             hist_tracker |-> <<>>,
             hooks |-> [p \in DOMAIN model |-> <<>>],
             i |-> 0,
             calls |-> <<>>,
             saved |-> Unset]

\* modules = list(iter_trackable_modules(net)); start_layer = modules[0];
\* hist_tracker = [HistogramTracker() for i in range(1 + len(output_layers))]
CalibListModules ==
    /\ pc = "start" /\ io.on = "calib"
    /\ LET modules == iter_trackable_modules(model)
       IN  IF Len(modules) = 0
           THEN /\ pc' = "IndexError"
                /\ io' = [io EXCEPT !.modules = modules]
           ELSE /\ pc' = "hook_input"
                /\ io' = [io EXCEPT
                            !.modules = modules,
                            !.hist_tracker = [k \in 1..(1 + Len(modules)) |-> <<>>]]
    /\ UNCHANGED <<model, track, quant>>

\* start_layer.register_forward_hook(hist_tracker_input_hook(hist_tracker[0]))
CalibHookInput ==
    /\ pc = "hook_input"
    /\ LET start_layer == At(io.modules, 0)
       IN  io' = [io EXCEPT !.hooks[start_layer] =
                      Append(@, [kind |-> "input", tracker |-> 0])]
    /\ pc' = "hook_outputs"
    /\ UNCHANGED <<model, track, quant>>

\* for i, layer in enumerate(output_layers):
\*     layer.register_forward_hook(hist_tracker_output_hook(hist_tracker[i + 1]))
CalibHookOutput ==
    /\ pc = "hook_outputs"
    /\ io.i < Len(io.modules)
    /\ LET layer == At(io.modules, io.i)
       IN  io' = [io EXCEPT
                    !.hooks[layer] =
                        Append(@, [kind |-> "output",
                                   tracker |-> output_tracker_index(io.i)]),
                    !.i = @ + 1]
    /\ UNCHANGED <<pc, model, track, quant>>

CalibHooksDone ==
    /\ pc = "hook_outputs"
    /\ io.i = Len(io.modules)
    /\ pc' = "running"
    /\ UNCHANGED <<model, track, quant, io>>

\* one module call made by the forward passes of the batches: forward runs,
\* then the module's forward hooks
ForwardCall(p) ==
    /\ pc = "running"
    /\ Len(io.calls) < MaxCalls
    /\ LET c == Len(io.calls) + 1
       IN  io' = [io EXCEPT
                    !.calls = Append(@, p),
                    !.hist_tracker =
                        RunHooks(@, io.hooks[p], InputOf(c, p), OutputOf(c, p))]
    /\ UNCHANGED <<pc, model, track, quant>>

\* histograms = [Histogram(...) for tracker in hist_tracker]; pickle.dump
CalibSave ==
    /\ pc = "running"
    /\ io' = [io EXCEPT !.saved = [k \in 1..Len(io.hist_tracker) |-> io.hist_tracker[k]]]
    /\ pc' = "saved"
    /\ UNCHANGED <<model, track, quant>>

NextCalib ==
    \/ CalibListModules
    \/ CalibHookInput
    \/ CalibHookOutput
    \/ CalibHooksDone
    \/ \E p \in DOMAIN model : ForwardCall(p)
    \/ CalibSave

SpecCalib == InitCalib /\ [][NextCalib]_vars

-----------------------------------------------------------------------------
(* Properties of the calibration pass *)

\* the trackable modules of the network, by the conditions of C1
TrackableSet(m) == {p \in DOMAIN m : IsTrackable(m, p)}

\* the calls of module p made so far
CallsOf(p) == {c \in 1..Len(io.calls) : io.calls[c] = p}

\* C5: with n >= 1 trackable modules there are n+1 trackers and n+1 saved
\* histograms; tracker 0 holds only first inputs of calls of the first
\* trackable module, tracker i+1 only outputs of calls of the i-th trackable
\* module, and every call of a trackable module is in its output tracker once.
C5_TrackerWiring ==
    (pc \in {"running", "saved"}) =>
        LET n == Len(io.modules)
        IN  /\ n = Cardinality(TrackableSet(model)) /\ n >= 1
            /\ Len(io.hist_tracker) = n + 1
            /\ pc = "saved" => Len(io.saved) = n + 1 /\ io.saved = io.hist_tracker
            /\ \A k \in 1..Len(io.hist_tracker[1]) :
                   LET t == io.hist_tracker[1][k]
                   IN  t.of = io.modules[1] /\ t.role = "input0"
            /\ \A c \in CallsOf(io.modules[1]) :
                   Cardinality({k \in 1..Len(io.hist_tracker[1]) :
                                    io.hist_tracker[1][k].call = c}) = 1
            /\ \A i \in 1..n :
                   /\ \A k \in 1..Len(io.hist_tracker[i + 1]) :
                          LET t == io.hist_tracker[i + 1][k]
                          IN  t.of = io.modules[i] /\ t.role = "output"
                   /\ \A c \in CallsOf(io.modules[i]) :
                          Cardinality({k \in 1..Len(io.hist_tracker[i + 1]) :
                                           io.hist_tracker[i + 1][k].call = c}) = 1

\* two trackable modules, the first called and then the second, then saved
C5_Witness ==
    /\ pc = "saved"
    /\ Len(io.modules) = 2
    /\ io.calls = <<io.modules[1], io.modules[2]>>
    /\ Len(io.saved) = 3
    /\ Len(io.saved[1]) = 1 /\ Len(io.saved[2]) = 1 /\ Len(io.saved[3]) = 1

-----------------------------------------------------------------------------
(* src/lib/utils.py: get_images, the labels file *)

\* the characters used, in code-point order
Ascii == <<"\n", " ", "-", ".", "/",
           "0", "1", "2", "3", "4", "5", "6", "7", "8", "9",
           "a", "b", "c", "d", "f", "v", "x">>

Ord(c) == CHOOSE k \in 1..Len(Ascii) : Ascii[k] = c

\* s < t for Python strings
StrLess(s, t) ==
    \/ Len(s) < Len(t) /\ SubSeq(t, 1, Len(s)) = s
    \/ \E k \in 1..Len(s) :
           /\ k <= Len(t)
           /\ SubSeq(s, 1, k - 1) = SubSeq(t, 1, k - 1)
           /\ Ord(s[k]) < Ord(t[k])

IsSpace(c) == c \in {" ", "\n"}

\* str.split(): the maximal runs of non-whitespace characters
RECURSIVE Split(_)
Split(s) ==
    IF s = <<>> THEN <<>>
    ELSE IF IsSpace(Head(s)) THEN Split(Tail(s))
    ELSE LET stop == IF \E k \in 1..Len(s) : IsSpace(s[k])
                     THEN (CHOOSE k \in 1..Len(s) :
                               IsSpace(s[k]) /\ \A j \in 1..(k - 1) : ~IsSpace(s[j])) - 1
                     ELSE Len(s)
         IN  <<SubSeq(s, 1, stop)>> \o Split(SubSeq(s, stop + 1, Len(s)))

DigitValue(c) == (CHOOSE k \in 1..10 : Digits[k] = c) - 1

IsDigit(c) == \E k \in 1..10 : Digits[k] = c

RECURSIVE Decimal(_)
Decimal(s) ==
    IF s = <<>> THEN 0
    ELSE 10 * Decimal(SubSeq(s, 1, Len(s) - 1)) + DigitValue(s[Len(s)])

\* int(s) for a token: an optional sign and decimal digits, else ValueError
int(s) ==
    LET body == IF s # <<>> /\ Head(s) = "-" THEN Tail(s) ELSE s
    IN  IF body = <<>> \/ \E k \in 1..Len(body) : ~IsDigit(body[k])
        THEN Raised("ValueError")
        ELSE Returned(IF body = s THEN Decimal(body) ELSE 0 - Decimal(body))

\* os.path.join(a, b) on POSIX
os_path_join(a, b) ==
    IF b # <<>> /\ Head(b) = "/" THEN b
    ELSE IF a = <<>> \/ a[Len(a)] = "/" THEN a \o b
    ELSE a \o <<"/">> \o b

\* the whole path taken as the key
sort_key_whole_path(f) == f[1]

\* key=lambda f: f[0].split("/")[-1]
sort_key(f) ==
    LET parts == SplitOn(f[1], "/") IN parts[Len(parts)]

\* list.sort(key=...): stable, ascending; x goes after the entries whose key
\* is not greater than its own
RECURSIVE InsertSorted(_, _)
InsertSorted(xs, x) ==
    IF xs = <<>> THEN <<x>>
    ELSE IF StrLess(sort_key(x), sort_key(Head(xs))) THEN <<x>> \o xs
    ELSE <<Head(xs)>> \o InsertSorted(Tail(xs), x)

RECURSIVE Sorted(_)
Sorted(xs) ==
    IF xs = <<>> THEN <<>>
    ELSE InsertSorted(Sorted(SubSeq(xs, 1, Len(xs) - 1)), xs[Len(xs)])

\* the body of the loop for one line: an entry, or the exception raised
ParseLine(images_dir, l) ==
    LET fields == Split(l)
    IN  IF Len(fields) # 2 THEN Raised("ValueError")
        ELSE LET label == int(fields[2])
             IN  IF label.exc # "none" THEN label
                 ELSE Returned(<<os_path_join(images_dir, fields[1]), label.val>>)

\* get_images on the lines of a file that parse
RECURSIVE ParseAll(_, _)
ParseAll(images_dir, lines) ==
    IF lines = <<>> THEN <<>>
    ELSE <<ParseLine(images_dir, Head(lines)).val>> \o ParseAll(images_dir, Tail(lines))

get_images(images_dir, lines) == Sorted(ParseAll(images_dir, lines))

\* file names and label tokens of the lines of a labels file
FileNames == {<<"a">>, <<"b">>, <<"d", "/", "a">>, <<"d", "/", "c">>}
LabelTokens == {[text |-> <<"7">>, value |-> 7],
                [text |-> <<"1", "2">>, value |-> 12],
                [text |-> <<"-", "1">>, value |-> 0 - 1]}
ImageDirs == {<<"v">>, <<"v", "/">>, <<>>}

\* the lines of a labels file as written: name, blank, label, newline; a
\* blank line stands for the lines that do not parse
FileLines ==
    {[name |-> n, label |-> t.value, text |-> n \o <<" ">> \o t.text \o <<"\n">>] :
        n \in FileNames, t \in LabelTokens}
    \cup {[name |-> <<>>, label |-> 0, text |-> <<"\n">>]}

SeqsUpTo(S, n) == UNION {[1..k -> S] : k \in 0..n}

InitImages ==
    /\ pc = "start"
    /\ model = (Root :> "Other")
    /\ track = Unset
    /\ quant = Unset
    /\ \E dir \in ImageDirs, file \in SeqsUpTo(FileLines, MaxLines) :
           io = [on |-> "images",
                 images_dir |-> dir,
                 file |-> file,
                 lines |-> <<>>,
                 images_metadata |-> <<>>,
                 ret |-> Unset]

\* lines = f.readlines(); images_metadata = []
ImagesReadLines ==
    /\ pc = "start" /\ io.on = "images"
    /\ io' = [io EXCEPT !.lines = [k \in 1..Len(io.file) |-> io.file[k].text]]
    /\ pc' = "loop"
    /\ UNCHANGED <<model, track, quant>>

\* one iteration of `for l in lines`
ImagesParseLine ==
    /\ pc = "loop"
    /\ Len(io.images_metadata) < Len(io.lines)
    /\ LET r == ParseLine(io.images_dir, io.lines[Len(io.images_metadata) + 1])
       IN  IF r.exc # "none"
           THEN pc' = r.exc /\ UNCHANGED io
           ELSE /\ io' = [io EXCEPT !.images_metadata = Append(@, r.val)]
                /\ UNCHANGED pc
    /\ UNCHANGED <<model, track, quant>>

\* images_metadata.sort(key=...)
ImagesSort ==
    /\ pc = "loop"
    /\ Len(io.images_metadata) = Len(io.lines)
    /\ io' = [io EXCEPT !.images_metadata = Sorted(@)]
    /\ pc' = "sorted"
    /\ UNCHANGED <<model, track, quant>>

\* return CustomImageData(images_metadata)
ImagesReturn ==
    /\ pc = "sorted"
    /\ io' = [io EXCEPT !.ret = [images_metadata |-> io.images_metadata,
                                 len |-> Len(io.images_metadata)]]
    /\ pc' = "returned"
    /\ UNCHANGED <<model, track, quant>>

NextImages ==
    \/ ImagesReadLines
    \/ ImagesParseLine
    \/ ImagesSort
    \/ ImagesReturn

SpecImages == InitImages /\ [][NextImages]_vars

-----------------------------------------------------------------------------
(* Properties of get_images *)

\* the part of a file name after its last "/"
LastComponent(name) ==
    LET cut == {k \in 1..Len(name) : name[k] = "/"}
        from == IF cut = {} THEN 1 ELSE (CHOOSE k \in cut : \A j \in cut : j <= k) + 1
    IN  SubSeq(name, from, Len(name))

\* images_dir joined with a file name
JoinedPath(dir, name) ==
    IF Head(name) = "/" THEN name
    ELSE IF dir = <<>> \/ dir[Len(dir)] = "/" THEN dir \o name
    ELSE dir \o <<"/">> \o name

Orderings(n) == {f \in [1..n -> 1..n] : \A i, j \in 1..n : i # j => f[i] # f[j]}

\* C6: get_images returns one (path, label) entry per line, the path being
\* images_dir joined with the line's file name and the label its second field
\* as an integer; the entries are the lines permuted into ascending order of
\* file name (last path component), and with distinct file names every
\* reordering of the lines gives the same sequence.
C6_SortedEntries ==
    pc = "returned" =>
        LET out == io.ret.images_metadata
            n   == Len(io.file)
        IN  /\ Len(out) = n /\ io.ret.len = n
            /\ \E f \in Orderings(n) :
                   /\ \A k \in 1..n :
                          out[k] = <<JoinedPath(io.images_dir, io.file[f[k]].name),
                                     io.file[f[k]].label>>
                   /\ \A k \in 1..(n - 1) :
                          ~StrLess(LastComponent(io.file[f[k + 1]].name),
                                   LastComponent(io.file[f[k]].name))
            /\ (\A i, j \in 1..n : i # j =>
                    LastComponent(io.file[i].name) # LastComponent(io.file[j].name))
               => \A f \in Orderings(n) :
                      get_images(io.images_dir, [k \in 1..n |-> io.file[f[k]].text]) = out

\* three lines out of order, one of them in a subdirectory, returned sorted
C6_Witness ==
    /\ pc = "returned"
    /\ Len(io.file) = 3
    /\ io.file[1].name = <<"d", "/", "c">>
    /\ io.file[2].name = <<"b">>
    /\ io.file[3].name = <<"a">>
    /\ io.images_dir = <<"v">>
    /\ io.ret.images_metadata[1][1] = <<"v", "/", "a">>
    /\ io.ret.images_metadata[3][1] = <<"v", "/", "d", "/", "c">>

-----------------------------------------------------------------------------
(* src/evalnet.py: main, the subcommand dispatch *)

\* the value of args.which; "None" when no subcommand is given
Subcommands ==
    {"print-net", "test-float", "log-fixed", "test-subset-fixed", "test-fixed", "None"}

\* required positional parameters of the functions defined in src/
Arity(fn) ==
    CASE fn = "get_images" -> 2
      [] fn = "get_intermediate" -> 3
      [] fn = "test_accuracy" -> 3

\* a call with positional arguments binds them to the parameters or raises
\* TypeError; functions defined outside src/ take what they are given
Call(fn, args) ==
    IF fn \in {"get_images", "get_intermediate", "test_accuracy"} /\ Len(args) # Arity(fn)
    THEN Raised("TypeError")
    ELSE Returned([fn |-> fn, args |-> args])

\* (quant_config, bounds) identifiers
ConfigPairs == {<<"q8", "minmax">>, <<"q8", "fixed">>, <<"q16", "minmax">>, <<"q16", "fixed">>}

\* the names of the nets and subsets CONFIG_SETS holds
NetNames == {"vgg11"}
SubsetNames == {"all"}

\* the first configuration left out
subset_configs_without_first(config_sets, net_name, subset) ==
    SubSeq(config_sets[net_name][subset], 2, Len(config_sets[net_name][subset]))

\* CONFIG_SETS[args.net_name][args.subset]
subset_configs(config_sets, net_name, subset) ==
    config_sets[net_name][subset]

InitMain ==
    /\ pc = "start"
    /\ model = (Root :> "Other")
    /\ track = Unset
    /\ quant = Unset
    /\ \E which \in Subcommands,
          configs \in SeqsUpTo(ConfigPairs, MaxConfigs),
          subset \in SubsetNames \cup {"other"},
          ignore_existing \in {"None", "True", "False"},
          pair \in ConfigPairs :
           /\ which # "test-subset-fixed" =>
                  configs = <<>> /\ subset = "all" /\ ignore_existing = "None"
           /\ which # "test-fixed" => pair = <<"q8", "minmax">>
           /\ io = [on |-> "main",
                    which |-> which,
                    net_name |-> "vgg11",
                    subset |-> subset,
                    ignore_existing |-> ignore_existing,
                    quant_config |-> pair[1],
                    bounds |-> pair[2],
                    CONFIG_SETS |-> [n \in NetNames |-> [u \in SubsetNames |-> configs]],
                    todo |-> <<>>,
                    events |-> <<>>]

\* net = get_net(args.net_name)
MainGetNet ==
    /\ pc = "start" /\ io.on = "main"
    /\ io' = [io EXCEPT !.events = Append(@, Call("get_net", <<io.net_name>>).val)]
    /\ pc' = "dispatch"
    /\ UNCHANGED <<model, track, quant>>

\* if args.which == 'log-fixed': get_images(calib_images_dir); CustomImageData;
\* get_intermediate(net, args.net_name, image_gen), which saves the histograms
MainLogFixed ==
    /\ pc = "dispatch"
    /\ io.which = "log-fixed"
    /\ LET r == Call("get_images", <<"CALIB_IMAGES">>)
           g == Call("get_intermediate", <<"net", io.net_name, "calib_image_gen">>)
       IN  IF r.exc # "none"
           THEN /\ pc' = r.exc
                /\ UNCHANGED io
           ELSE /\ pc' = "exit"
                /\ io' = [io EXCEPT !.events =
                              @ \o <<r.val, g.val,
                                     [fn |-> "save",
                                      args |-> <<"output/outputhistogram_", io.net_name, ".pkl">>]>>]
    /\ UNCHANGED <<model, track, quant>>

\* else: labels_file = os.getenv("VAL_SUBSET_LIST");
\* testing_files = get_images(val_images_dir, labels_file);
\* image_gen = CustomImageData(testing_files)
MainLoadValidation ==
    /\ pc = "dispatch"
    /\ io.which # "log-fixed"
    /\ LET r == Call("get_images", <<"VAL_IMAGES", "VAL_SUBSET_LIST">>)
       IN  IF r.exc # "none"
           THEN pc' = r.exc /\ UNCHANGED io
           ELSE pc' = "loaded" /\ io' = [io EXCEPT !.events = Append(@, r.val)]
    /\ UNCHANGED <<model, track, quant>>

\* if args.which == 'test-float': test_accuracy(net, args.net_name, image_gen)
MainTestFloat ==
    /\ pc = "loaded"
    /\ io.which = "test-float"
    /\ LET r == Call("test_accuracy", <<"net", io.net_name, "image_gen">>)
       IN  IF r.exc # "none"
           THEN pc' = r.exc /\ UNCHANGED io
           ELSE pc' = "exit" /\ io' = [io EXCEPT !.events = Append(@, r.val)]
    /\ UNCHANGED <<model, track, quant>>

\* elif args.which == 'test-fixed':
\*     test_quant(net, args.net_name, image_gen, args.quant_config, args.bounds, False)
MainTestFixed ==
    /\ pc = "loaded"
    /\ io.which = "test-fixed"
    /\ io' = [io EXCEPT !.events =
                  Append(@, Call("test_quant",
                                 <<"net", io.net_name, "image_gen",
                                   io.quant_config, io.bounds, "False">>).val)]
    /\ pc' = "exit"
    /\ UNCHANGED <<model, track, quant>>

\* elif args.which == "test-subset-fixed":
\*     for (quant_config, bounds) in CONFIG_SETS[args.net_name][args.subset]:
MainSubsetLookup ==
    /\ pc = "loaded"
    /\ io.which = "test-subset-fixed"
    /\ IF io.net_name \in DOMAIN io.CONFIG_SETS
          /\ io.subset \in DOMAIN io.CONFIG_SETS[io.net_name]
       THEN /\ io' = [io EXCEPT !.todo =
                          subset_configs(io.CONFIG_SETS, io.net_name, io.subset)]
            /\ pc' = "loop"
       ELSE /\ pc' = "KeyError"
            /\ UNCHANGED io
    /\ UNCHANGED <<model, track, quant>>

\*         test_quant(net, args.net_name, image_gen, quant_config, bounds,
\*                    args.ignore_existing)
MainSubsetStep ==
    /\ pc = "loop"
    /\ io.todo # <<>>
    /\ LET quant_config == Head(io.todo)[1]
           bounds       == Head(io.todo)[2]
       IN  io' = [io EXCEPT
                    !.events =
                        Append(@, Call("test_quant",
                                       <<"net", io.net_name, "image_gen",
                                         quant_config, bounds, io.ignore_existing>>).val),
                    !.todo = Tail(@)]
    /\ UNCHANGED <<pc, model, track, quant>>

MainSubsetDone ==
    /\ pc = "loop"
    /\ io.todo = <<>>
    /\ pc' = "exit"
    /\ UNCHANGED <<model, track, quant, io>>

\* elif args.which == "print-net": the tree and both classifications printed
MainPrintNet ==
    /\ pc = "loaded"
    /\ io.which = "print-net"
    /\ io' = [io EXCEPT !.events =
                  @ \o <<[fn |-> "print", args |-> <<"net">>],
                         [fn |-> "print", args |-> <<"-- Layers to track:">>],
                         [fn |-> "print", args |-> <<"-- Layers to quantise:">>]>>]
    /\ pc' = "exit"
    /\ UNCHANGED <<model, track, quant>>

\* else: print("No task selected.")
MainNoTask ==
    /\ pc = "loaded"
    /\ io.which = "None"
    /\ io' = [io EXCEPT !.events =
                  Append(@, [fn |-> "print", args |-> <<"No task selected.">>])]
    /\ pc' = "exit"
    /\ UNCHANGED <<model, track, quant>>

NextMain ==
    \/ MainGetNet
    \/ MainLogFixed
    \/ MainLoadValidation
    \/ MainTestFloat
    \/ MainTestFixed
    \/ MainSubsetLookup
    \/ MainSubsetStep
    \/ MainSubsetDone
    \/ MainPrintNet
    \/ MainNoTask

SpecMain == InitMain /\ [][NextMain]_vars

-----------------------------------------------------------------------------
(* Properties of the dispatch *)

\* the process has ended, normally or by an uncaught exception
Ended == pc \in {"exit", "TypeError", "KeyError"}

\* the calls of fn made so far, in order
RECURSIVE CallsTo(_, _)
CallsTo(events, fn) ==
    IF events = <<>> THEN <<>>
    ELSE (IF Head(events).fn = fn THEN <<Head(events).args>> ELSE <<>>)
         \o CallsTo(Tail(events), fn)

\* C7: log-fixed loads the calibration images, runs get_intermediate over
\* them exactly once and saves the histograms to
\* output/outputhistogram_<net_name>.pkl; no float or quantized test runs.
C7_LogFixedCalibrates ==
    (io.on = "main" /\ io.which = "log-fixed" /\ Ended) =>
        /\ CallsTo(io.events, "get_images") = << <<"CALIB_IMAGES">> >>
        /\ Len(CallsTo(io.events, "get_intermediate")) = 1
        /\ CallsTo(io.events, "save") =
               << <<"output/outputhistogram_", io.net_name, ".pkl">> >>
        /\ CallsTo(io.events, "test_accuracy") = <<>>
        /\ CallsTo(io.events, "test_quant") = <<>>

====
